---- MODULE Spec2Model ----
(***************************************************************************)
(* PAC therapy in a system with susceptible and antibiotic-resistant       *)
(* bacteria: the forcing functions, the fraction functions, the ODE        *)
(* right-hand side and the integration driver of                           *)
(* v_pac_therapy_in_a_system_with_susceptible_and_antibiotic_resistant_    *)
(* bacteria.py.                                                            *)
(*                                                                         *)
(* Python floats are modelled as binary floating-point numbers <<m, e>>    *)
(* (value m * 2^e) with a Prec-bit significand and round-to-nearest-even,  *)
(* the arithmetic of IEEE-754 binary64 at a reduced significand width.     *)
(***************************************************************************)
EXTENDS Integers, Sequences, FiniteSets, TLC

VARIABLES
    glob,      \* the module-level variables: the parameters and y0
    call,      \* the last direct call of a function of the module
    ret,       \* what that call returned or raised
    status,    \* "idle", "running", "finished" or "failed" (solve_ivp)
    run,       \* number of integrations started
    hstep,     \* step size of the integrator, <<hnum, hden>> hours
    tnum,      \* current time of the integrator, tnum / hden hours
    cur,       \* current state of the integrator, <<Ca, S, A, P>>
    result,    \* result.t and result.y of the running integration
    prev       \* status and result of the integration before

vars == <<glob, call, ret, status, run, hstep, tnum, cur, result, prev>>

\* ------------------------------------------------------------------------
\* Bounds of the model
\* ------------------------------------------------------------------------
Prec == 11            \* significand width of the modelled floats (bits)
StepsPerHour == 10    \* integrator steps per hour (h = 1/StepsPerHour)
MaxRuns == 2          \* integrations run one after the other

\* ------------------------------------------------------------------------
\* Floating-point arithmetic (round to nearest, ties to even)
\* ------------------------------------------------------------------------
Abs(x) == IF x < 0 THEN -x ELSE x

Sgn(x) == IF x < 0 THEN -1 ELSE IF x > 0 THEN 1 ELSE 0

RECURSIVE BitLen(_)
BitLen(x) == IF x = 0 THEN 0 ELSE 1 + BitLen(x \div 2)

Zero == <<0, 0>>

\* a result that is not a finite number (numpy's nan / inf)
NonFinite == <<0, 1>>

\* the float nearest to m * 2^ex
Round(m, ex) ==
    IF m = 0 THEN Zero
    ELSE LET a  == Abs(m)
             sh == BitLen(a) - Prec
         IN  IF sh <= 0
             THEN <<m * (2 ^ (-sh)), ex + sh>>
             ELSE LET q    == a \div (2 ^ sh)
                      r    == a % (2 ^ sh)
                      half == 2 ^ (sh - 1)
                      up   == r > half \/ (r = half /\ q % 2 = 1)
                      q2   == IF up THEN q + 1 ELSE q
                  IN  IF q2 = 2 ^ Prec
                      THEN <<Sgn(m) * (2 ^ (Prec - 1)), ex + sh + 1>>
                      ELSE <<Sgn(m) * q2, ex + sh>>

FromInt(k) == Round(k, 0)

Neg(x) == <<-x[1], x[2]>>

Add(x, y) ==
    IF x[1] = 0 THEN y
    ELSE IF y[1] = 0 THEN x
    ELSE LET hi == IF x[2] >= y[2] THEN x ELSE y
             lo == IF x[2] >= y[2] THEN y ELSE x
             df == hi[2] - lo[2]
         IN  IF df > Prec + 1 THEN hi
             ELSE Round(hi[1] * (2 ^ df) + lo[1], lo[2])

Sub(x, y) == Add(x, Neg(y))

Mul(x, y) == Round(x[1] * y[1], x[2] + y[2])

\* x / y for y # 0: quotient with two guard bits and a sticky bit
Div(x, y) ==
    LET a == Abs(x[1])
        c == Abs(y[1])
        n == a * (2 ^ (Prec + 2))
        q == n \div c
        s == IF n % c = 0 THEN 0 ELSE 1
    IN  Round(Sgn(x[1]) * Sgn(y[1]) * (2 * q + s), x[2] - y[2] - (Prec + 3))

IsZero(x) == x[1] = 0

Less(x, y) == Sub(x, y)[1] < 0

LessEq(x, y) == Sub(x, y)[1] <= 0

RECURSIVE Pow10(_)
Pow10(k) == IF k = 0 THEN FromInt(1) ELSE Mul(FromInt(10), Pow10(k - 1))

\* the float of the decimal literal m * 10^(-k)
Dec(m, k) == Div(FromInt(m), Pow10(k))

\* binary64 holds magnitudes below 2^1024
MaxExp == 2 ^ 10

IsFinite(x) == x[1] = 0 \/ Prec + x[2] <= MaxExp

\* ------------------------------------------------------------------------
\* Outcome of a Python call: a returned value or a raised exception
\* ------------------------------------------------------------------------
Return(v) == [exc |-> "", val |-> v]

Raise(name) == [exc |-> name, val |-> <<>>]

\* "float": Python int/float operands; "float64": numpy scalars, as the
\* integrator passes them (elements of its state array)
NumTypes == {"float", "float64"}

\* x / y: Python numbers raise on a zero divisor, numpy scalars warn and
\* give nan or inf
TrueDiv(x, y, ty) ==
    IF IsZero(y)
    THEN IF ty = "float" THEN Raise("ZeroDivisionError") ELSE Return(NonFinite)
    ELSE Return(Div(x, y))

\* ------------------------------------------------------------------------
\* Module-level parameters and initial populations
\* ------------------------------------------------------------------------
S0 == Mul(Dec(5, 1), Dec(46773514, 3))
A0 == Mul(Dec(5, 1), Dec(46773514, 3))
P0 == Dec(18620871, 1)

Globals ==
    [ i     |-> Dec(616595, 12),
      d     |-> Dec(10, 2),
      b     |-> FromInt(106),
      gamma |-> Dec(23, 2),
      Ca    |-> FromInt(0),
      ka    |-> Dec(25118864, 2),
      e     |-> FromInt(1),
      K     |-> FromInt(87096359),
      rS    |-> Dec(185, 2),
      mA    |-> Dec(933254, 12),
      mS    |-> Dec(933254, 12),
      rA    |-> Dec(163, 2),
      y0    |-> <<FromInt(0), S0, A0, P0>> ]

\* ------------------------------------------------------------------------
\* Forcing functions
\* ------------------------------------------------------------------------
\* antibiotic_input with the start of the window excluded (t_n < t)
antibiotic_input_open_start(t) ==
    LET injection_times   == <<FromInt(100)>>
        dose              == Dec(661, 2)
        infusion_duration == FromInt(1)
    IN  IF \E k \in 1..Len(injection_times) :
               /\ Less(injection_times[k], t)
               /\ Less(t, Add(injection_times[k], infusion_duration))
        THEN dose
        ELSE Zero

\* antibiotic_input with the end of the window included (t <= t_n + 1)
antibiotic_input_closed_end(t) ==
    LET injection_times   == <<FromInt(100)>>
        dose              == Dec(661, 2)
        infusion_duration == FromInt(1)
    IN  IF \E k \in 1..Len(injection_times) :
               /\ LessEq(injection_times[k], t)
               /\ LessEq(t, Add(injection_times[k], infusion_duration))
        THEN dose
        ELSE Zero

antibiotic_input(t) ==
    LET injection_times   == <<FromInt(100)>>
        dose              == Dec(661, 2)
        infusion_duration == FromInt(1)
    IN  IF \E k \in 1..Len(injection_times) :
               /\ LessEq(injection_times[k], t)
               /\ Less(t, Add(injection_times[k], infusion_duration))
        THEN dose
        ELSE Zero

\* phage_input with a dose of 1 instead of 0
phage_input_dosed(t) ==
    LET injection_times   == <<FromInt(0)>>
        dose              == FromInt(1)
        infusion_duration == FromInt(1)
    IN  IF \E k \in 1..Len(injection_times) :
               /\ LessEq(injection_times[k], t)
               /\ Less(t, Add(injection_times[k], infusion_duration))
        THEN dose
        ELSE Zero

phage_input(t) ==
    LET injection_times   == <<FromInt(0)>>
        dose              == FromInt(0)
        infusion_duration == FromInt(1)
    IN  IF \E k \in 1..Len(injection_times) :
               /\ LessEq(injection_times[k], t)
               /\ Less(t, Add(injection_times[k], infusion_duration))
        THEN dose
        ELSE Zero

\* ------------------------------------------------------------------------
\* Fraction functions: the quotient is taken before the total is tested
\* ------------------------------------------------------------------------
\* alpha with the quotient of sigma (S / total)
alpha_of_S(A, S, ty) ==
    LET total  == Add(A, S)
        alpha_ == TrueDiv(S, total, ty)
    IN  IF alpha_.exc # "" THEN alpha_
        ELSE Return(IF total[1] > 0 THEN alpha_.val ELSE Zero)

alpha(A, S, ty) ==
    LET total  == Add(A, S)
        alpha_ == TrueDiv(A, total, ty)
    IN  IF alpha_.exc # "" THEN alpha_
        ELSE Return(IF total[1] > 0 THEN alpha_.val ELSE Zero)

sigma(A, S, ty) ==
    LET total  == Add(A, S)
        sigma_ == TrueDiv(S, total, ty)
    IN  IF sigma_.exc # "" THEN sigma_
        ELSE Return(IF total[1] > 0 THEN sigma_.val ELSE Zero)

\* ------------------------------------------------------------------------
\* The system of ODEs
\* ------------------------------------------------------------------------
\* model with the infusion subtracted from dCa/dt instead of added
model_infusion_subtracted(t, y, gamma, e, ka, rS, K, mA, mS, rA, i, d, b, ty) ==
    LET Ca == y[1]
        S  == y[2]
        A  == y[3]
        P  == y[4]
        sg == sigma(A, S, ty)
        al == alpha(A, S, ty)
    IN  IF sg.exc # "" THEN sg
        ELSE IF al.exc # "" THEN al
        ELSE
        LET growth == Sub(FromInt(1), Div(Add(S, A), K))
            dCa_dt == Sub(Mul(Neg(gamma), Ca), antibiotic_input(t))
            dS_dt  == Add(Sub(Sub(Sub(Mul(Mul(rS, S), growth),
                                      Mul(Mul(e, Ca), ka)),
                                  Mul(Mul(Mul(i, S), sg.val), P)),
                              Mul(mA, S)),
                          Mul(mS, A))
            dA_dt  == Sub(Add(Sub(Mul(Mul(rA, A), growth),
                                  Mul(Mul(Mul(i, A), al.val), P)),
                              Mul(mA, S)),
                          Mul(mS, A))
            dP_dt  == Add(Sub(Mul(Mul(Mul(b, i), P),
                                  Add(Mul(sg.val, S), Mul(al.val, A))),
                              Mul(d, P)),
                          phage_input(t))
        IN  Return(<<dCa_dt, dS_dt, dA_dt, dP_dt>>)

model(t, y, gamma, e, ka, rS, K, mA, mS, rA, i, d, b, ty) ==
    LET Ca == y[1]
        S  == y[2]
        A  == y[3]
        P  == y[4]
        sg == sigma(A, S, ty)
        al == alpha(A, S, ty)
    IN  IF sg.exc # "" THEN sg
        ELSE IF al.exc # "" THEN al
        ELSE
        LET growth == Sub(FromInt(1), Div(Add(S, A), K))
            dCa_dt == Add(Mul(Neg(gamma), Ca), antibiotic_input(t))
            dS_dt  == Add(Sub(Sub(Sub(Mul(Mul(rS, S), growth),
                                      Mul(Mul(e, Ca), ka)),
                                  Mul(Mul(Mul(i, S), sg.val), P)),
                              Mul(mA, S)),
                          Mul(mS, A))
            dA_dt  == Sub(Add(Sub(Mul(Mul(rA, A), growth),
                                  Mul(Mul(Mul(i, A), al.val), P)),
                              Mul(mA, S)),
                          Mul(mS, A))
            dP_dt  == Add(Sub(Mul(Mul(Mul(b, i), P),
                                  Add(Mul(sg.val, S), Mul(al.val, A))),
                              Mul(d, P)),
                          phage_input(t))
        IN  Return(<<dCa_dt, dS_dt, dA_dt, dP_dt>>)

\* model called with the module-level parameters g, as the script does
modelG(t, y, g, ty) ==
    model(t, y, g.gamma, g.e, g.ka, g.rS, g.K, g.mA, g.mS, g.rA, g.i, g.d, g.b, ty)

\* ------------------------------------------------------------------------
\* Time settings
\* ------------------------------------------------------------------------
t_end == 126
timesteps == 126

\* np.linspace(start, stop, num): num evenly spaced points, both ends
\* included; each point is the rational <<numerator, denominator>>
linspace(start, stop, num) ==
    [k \in 1..num |-> <<start * (num - 1) + (k - 1) * (stop - start), num - 1>>]

t_eval == linspace(0, t_end, timesteps)

\* ------------------------------------------------------------------------
\* solve_ivp(model, [0, timesteps], y0, args=(...), t_eval=t_eval)
\* The integrator advances the state by steps y + h * model(t, y); the
\* samples at the points of t_eval covered by a step are interpolated
\* between its two ends.  A step whose result leaves the range of the
\* floats fails the integration, which then returns what it has so far.
\* ------------------------------------------------------------------------
NoResult == [t |-> <<>>, y |-> <<<<>>, <<>>, <<>>, <<>>>>]

TimeOf(num, den) == Div(FromInt(num), FromInt(den))

\* the length of the step taken at time tn / hh[2], cut at the end tf
StepNum(tn, hh, tf) ==
    IF tn + hh[1] > tf * hh[2] THEN tf * hh[2] - tn ELSE hh[1]

EulerStep(tn, yy, hh, tf, g) ==
    LET f  == modelG(TimeOf(tn, hh[2]), yy, g, "float64").val
        hf == TimeOf(StepNum(tn, hh, tf), hh[2])
    IN  [j \in 1..4 |-> Add(yy[j], Mul(hf, f[j]))]

\* indices of the points of grid after the first have and up to time
\* tn / hden
Covered(grid, have, tn, hden) ==
    {k \in (have + 1)..Len(grid) : grid[k][1] * hden <= tn * grid[k][2]}

\* the state at grid point gp inside the step from (t0n, y0s) to (t1n, y1s)
DenseOutput(gp, t0n, t1n, hden, y0s, y1s) ==
    LET num   == gp[1] * hden - t0n * gp[2]
        den   == (t1n - t0n) * gp[2]
        theta == Div(FromInt(num), FromInt(den))
    IN  [j \in 1..4 |-> Add(y0s[j], Mul(theta, Sub(y1s[j], y0s[j])))]

Record(res, grid, t0n, t1n, hden, y0s, y1s) ==
    LET have == Len(res.t)
        cnt  == Cardinality(Covered(grid, have, t1n, hden))
        new  == [m \in 1..cnt |-> grid[have + m]]
    IN  [t |-> res.t \o new,
         y |-> [j \in 1..4 |-> res.y[j] \o
                  [m \in 1..cnt |->
                      DenseOutput(new[m], t0n, t1n, hden, y0s, y1s)[j]]]]

Done == status \in {"finished", "failed"}

\* the call of solve_ivp: integrate from y0 over [0, timesteps]
StartSolve ==
    /\ status = "idle" \/ Done
    /\ run < MaxRuns
    /\ run' = run + 1
    /\ prev' = [status |-> status, result |-> result]
    /\ status' = "running"
    /\ tnum' = 0
    /\ cur' = glob.y0
    /\ result' = NoResult
    /\ UNCHANGED <<glob, call, ret, hstep>>

\* StepFrom writing the new state back into the module-level y0
StepFromInPlace(yy, sampled) ==
    /\ status = "running"
    /\ LET tf   == timesteps
           t1n  == tnum + StepNum(tnum, hstep, tf)
           ynew == EulerStep(tnum, yy, hstep, tf, glob)
       IN  IF \E j \in 1..4 : ~IsFinite(ynew[j])
           THEN /\ status' = "failed"
                /\ UNCHANGED <<tnum, cur, result, glob>>
           ELSE /\ tnum' = t1n
                /\ cur' = ynew
                /\ glob' = [glob EXCEPT !.y0 = ynew]
                /\ result' = IF sampled
                             THEN Record(result, t_eval, tnum, t1n, hstep[2], yy, ynew)
                             ELSE result
                /\ status' = IF t1n >= tf * hstep[2] THEN "finished" ELSE "running"
    /\ UNCHANGED <<call, ret, run, hstep, prev>>

\* one step of the integrator, taken from the state yy; the samples of
\* t_eval it covers are added to the result when sampled
StepFrom(yy, sampled) ==
    /\ status = "running"
    /\ LET tf   == timesteps
           t1n  == tnum + StepNum(tnum, hstep, tf)
           ynew == EulerStep(tnum, yy, hstep, tf, glob)
       IN  IF \E j \in 1..4 : ~IsFinite(ynew[j])
           THEN /\ status' = "failed"
                /\ UNCHANGED <<tnum, cur, result>>
           ELSE /\ tnum' = t1n
                /\ cur' = ynew
                /\ result' = IF sampled
                             THEN Record(result, t_eval, tnum, t1n, hstep[2], yy, ynew)
                             ELSE result
                /\ status' = IF t1n >= tf * hstep[2] THEN "finished" ELSE "running"
    /\ UNCHANGED <<glob, call, ret, run, hstep, prev>>

Step == StepFrom(cur, TRUE)

Init ==
    /\ glob = Globals
    /\ call = [fn |-> "", args |-> <<>>, ty |-> ""]
    /\ ret = Return(Zero)
    /\ status = "idle"
    /\ run = 0
    /\ hstep = <<1, StepsPerHour>>
    /\ tnum = 0
    /\ cur = Globals.y0
    /\ result = NoResult
    /\ prev = [status |-> "idle", result |-> NoResult]

Next == StartSolve \/ Step

Spec == Init /\ [][Next]_vars

\* ------------------------------------------------------------------------
\* Direct calls of the functions of the module, on bounded sets of inputs
\* ------------------------------------------------------------------------
TimeRes == 4
MaxPop == 6

TimeVals == {TimeOf(k, TimeRes) : k \in (-TimeRes)..((t_end + 1) * TimeRes)}

\* a positive density below 1e-10
Tiny == Round(1, -40)

PopVals == {FromInt(k) : k \in (-MaxPop)..MaxPop}
               \cup {Tiny, Neg(Tiny), FromInt(2 ^ Prec), S0}

ModelTimes == {FromInt(0), TimeOf(399, 4), FromInt(100), TimeOf(403, 4), FromInt(101)}
ModelCa == {FromInt(0), FromInt(1), FromInt(6)}
ModelPop == {FromInt(-2), FromInt(0), Tiny, FromInt(2), FromInt(3), S0}
ModelPhage == {FromInt(-1), FromInt(0), Tiny, P0}

Pending == [exc |-> "pending", val |-> <<>>]

Calls ==
    {[fn |-> "antibiotic_input", args |-> <<t>>, ty |-> "float"] : t \in TimeVals}
    \cup {[fn |-> "phage_input", args |-> <<t>>, ty |-> "float"] : t \in TimeVals}
    \cup {[fn |-> fn, args |-> <<A, S>>, ty |-> ty] :
             fn \in {"alpha", "sigma"}, A \in PopVals, S \in PopVals, ty \in NumTypes}
    \cup {[fn |-> "model", args |-> <<t, <<Ca, S, A, P>>>>, ty |-> ty] :
             t \in ModelTimes, Ca \in ModelCa, S \in ModelPop, A \in ModelPop,
             P \in ModelPhage, ty \in NumTypes}

\* the pending call of fn runs and returns or raises r
Returns(fn, r) ==
    /\ call.fn = fn
    /\ ret = Pending
    /\ ret' = r
    /\ UNCHANGED <<glob, call, status, run, hstep, tnum, cur, result, prev>>

CallAntibioticInput ==
    Returns("antibiotic_input", Return(antibiotic_input(call.args[1])))

CallPhageInput ==
    Returns("phage_input", Return(phage_input(call.args[1])))

CallAlpha == Returns("alpha", alpha(call.args[1], call.args[2], call.ty))

CallSigma == Returns("sigma", sigma(call.args[1], call.args[2], call.ty))

CallModel ==
    Returns("model", modelG(call.args[1], call.args[2], glob, call.ty))

InitFn ==
    /\ glob = Globals
    /\ call \in Calls
    /\ ret = Pending
    /\ status = "idle"
    /\ run = 0
    /\ hstep = <<1, StepsPerHour>>
    /\ tnum = 0
    /\ cur = Globals.y0
    /\ result = NoResult
    /\ prev = [status |-> "idle", result |-> NoResult]

NextFn ==
    CallAntibioticInput \/ CallPhageInput \/ CallAlpha \/ CallSigma \/ CallModel

SpecFn == InitFn /\ [][NextFn]_vars

\* ------------------------------------------------------------------------
\* The antibiotic alone: an integration with any of the step sizes of
\* StepSizes in which every step starts from arbitrary populations (the
\* samples of the populations are not kept)
\* ------------------------------------------------------------------------
StepSizes == {<<1, 2>>, <<1, 1>>, <<2, 1>>, <<4, 1>>, <<5, 1>>}

AnyPop == { <<FromInt(-1), FromInt(-1), FromInt(-1)>>,
            <<FromInt(0), FromInt(0), FromInt(0)>>,
            <<S0, A0, P0>>,
            <<Globals.K, Globals.K, P0>> }

StepAnyPop ==
    \E pop \in AnyPop : StepFrom(<<cur[1], pop[1], pop[2], pop[3]>>, FALSE)

InitCa ==
    /\ glob = Globals
    /\ call = [fn |-> "", args |-> <<>>, ty |-> ""]
    /\ ret = Return(Zero)
    /\ status = "running"
    /\ run = 1
    /\ hstep \in StepSizes
    /\ tnum = 0
    /\ cur = Globals.y0
    /\ result = NoResult
    /\ prev = [status |-> "idle", result |-> NoResult]

NextCa == StepAnyPop

SpecCa == InitCa /\ [][NextCa]_vars

\* ------------------------------------------------------------------------
\* Properties of the direct calls (SpecFn)
\* ------------------------------------------------------------------------
One == FromInt(1)

AbsF(x) == <<Abs(x[1]), x[2]>>

Returned(fn) == call.fn = fn /\ ret # Pending

\* the exact comparison k <= x of a float with an integer
IntLessEq(k, x) ==
    IF x[2] >= 0 THEN k <= x[1] * (2 ^ x[2]) ELSE k * (2 ^ (-x[2])) <= x[1]

\* C1: model(t, y, ...) returns [-gamma*Ca + antibiotic_input(t),
\* rS*S*(1-(S+A)/K) - e*Ca*ka - i*S*sigma*P - mA*S + mS*A,
\* rA*A*(1-(S+A)/K) - i*A*alpha*P + mA*S - mS*A,
\* b*i*P*(sigma*S + alpha*A) - d*P + phage_input(t)] for every time and
\* every state, with sigma and alpha taken from the A and S of the call and
\* no component clamped.
C1_ModelReturnsRhs ==
    Returned("model") =>
        /\ ret.exc = ""
        /\ LET t  == call.args[1]
               Ca == call.args[2][1]
               S  == call.args[2][2]
               A  == call.args[2][3]
               P  == call.args[2][4]
               g  == glob
               sg == sigma(A, S, call.ty).val
               al == alpha(A, S, call.ty).val
               lg == Sub(One, Div(Add(S, A), g.K))
           IN  ret.val =
                 << Add(Mul(Neg(g.gamma), Ca), antibiotic_input(t)),
                    Add(Sub(Sub(Sub(Mul(Mul(g.rS, S), lg), Mul(Mul(g.e, Ca), g.ka)),
                                Mul(Mul(Mul(g.i, S), sg), P)),
                            Mul(g.mA, S)),
                        Mul(g.mS, A)),
                    Sub(Add(Sub(Mul(Mul(g.rA, A), lg), Mul(Mul(Mul(g.i, A), al), P)),
                            Mul(g.mA, S)),
                        Mul(g.mS, A)),
                    Add(Sub(Mul(Mul(Mul(g.b, g.i), P), Add(Mul(sg, S), Mul(al, A))),
                            Mul(g.d, P)),
                        phage_input(t)) >>

C3_ZeroTotalReturnsZero ==
    (Returned("alpha") \/ Returned("sigma")) =>
        (call.args[1] = Neg(call.args[2]) => ret = Return(Zero))

\* C4 (as claimed): for A >= 0, S >= 0, A + S > 0: alpha = A/(A+S),
\* sigma = S/(A+S) and alpha + sigma == 1 exactly.
C4_FractionsSumExactlyOne ==
    (Returned("alpha") \/ Returned("sigma")) =>
        LET A == call.args[1]
            S == call.args[2]
        IN  (A[1] >= 0 /\ S[1] >= 0 /\ (A[1] > 0 \/ S[1] > 0)) =>
              /\ ret = Return(Div(IF call.fn = "alpha" THEN A ELSE S, Add(A, S)))
              /\ Add(alpha(A, S, call.ty).val, sigma(A, S, call.ty).val) = One

\* C4 (amended): for A >= 0, S >= 0, A + S > 0: alpha = A/(A+S),
\* sigma = S/(A+S) as quotients by the rounded total, and alpha + sigma is 1
\* within floating-point tolerance (four units roundoff), not always exactly.
C4_FractionsSumWithinTolerance ==
    (Returned("alpha") \/ Returned("sigma")) =>
        LET A == call.args[1]
            S == call.args[2]
        IN  (A[1] >= 0 /\ S[1] >= 0 /\ (A[1] > 0 \/ S[1] > 0)) =>
              /\ ret = Return(Div(IF call.fn = "alpha" THEN A ELSE S, Add(A, S)))
              /\ LessEq(AbsF(Sub(Add(alpha(A, S, call.ty).val,
                                     sigma(A, S, call.ty).val), One)),
                        Round(1, 2 - Prec))

C4_Witness ==
    /\ Returned("alpha")
    /\ call.args = <<FromInt(3), FromInt(2 ^ Prec)>>
    /\ ret = Return(Div(FromInt(3), Add(FromInt(3), FromInt(2 ^ Prec))))
    /\ Add(ret.val, sigma(call.args[1], call.args[2], call.ty).val) # One

\* C9: phage_input(t) returns 0 for every t, inside the window 0 <= t < 1
\* as well as outside it, so the forcing term adds nothing to dP/dt.
C9_PhageInputZero ==
    /\ Returned("phage_input") => ret = Return(Zero)
    /\ (Returned("model") /\ ret.exc = "") =>
          LET S  == call.args[2][2]
              A  == call.args[2][3]
              P  == call.args[2][4]
              sg == sigma(A, S, call.ty).val
              al == alpha(A, S, call.ty).val
          IN  ret.val[4] = Sub(Mul(Mul(Mul(glob.b, glob.i), P),
                                   Add(Mul(sg, S), Mul(al, A))),
                               Mul(glob.d, P))

C9_Witness ==
    /\ Returned("phage_input")
    /\ call.args[1] = TimeOf(1, 2)
    /\ ret = Return(Zero)

\* ------------------------------------------------------------------------
\* Properties of the integration (Spec, SpecCa)
\* ------------------------------------------------------------------------
Positive(x) == x[1] > 0

\* the current time of the integrator is before / not before k hours
Before(k) == tnum < k * hstep[2]

\* dCa/dt at the current state of the integrator
dCa_now == modelG(TimeOf(tnum, hstep[2]), cur, glob, "float64").val[1]

\* C5: the integration runs from t = 0 to t = t_end = 126 and reports the
\* state on exactly timesteps = 126 evenly spaced points, the first 0 and
\* the last 126; each of the four output sequences has 126 elements.
C5_FullGridReported ==
    Done =>
        /\ Len(result.t) = timesteps
        /\ result.t[1][1] = 0
        /\ result.t[timesteps][1] = t_end * result.t[timesteps][2]
        /\ \A k \in 2..(timesteps - 1) :
              result.t[k + 1][1] * result.t[k][2] - result.t[k][1] * result.t[k + 1][2]
                = result.t[k][1] * result.t[k - 1][2] - result.t[k - 1][1] * result.t[k][2]
        /\ \A j \in 1..4 : Len(result.y[j]) = timesteps

C7_PopulationsWithinCapacity ==
    status # "idle" =>
        /\ cur[2][1] >= 0 /\ LessEq(cur[2], glob.K)
        /\ cur[3][1] >= 0 /\ LessEq(cur[3], glob.K)

C10_CaNonNegativeDecoupled ==
    LET t == TimeOf(tnum, hstep[2])
    IN  /\ antibiotic_input(t)[1] >= 0
        /\ \A pop \in AnyPop :
              modelG(t, <<cur[1], pop[1], pop[2], pop[3]>>, glob, "float64").val[1]
                = Add(Mul(Neg(glob.gamma), cur[1]), antibiotic_input(t))
        /\ Less(Mul(glob.gamma, TimeOf(hstep[1], hstep[2])), One) => cur[1][1] >= 0

C10_Witness ==
    /\ Less(Mul(glob.gamma, TimeOf(hstep[1], hstep[2])), One)
    /\ Positive(cur[1])
    /\ cur[2][1] < 0
    /\ ~Before(101)

====
